---- MODULE Spec2Model ----
(***************************************************************************)
(* Webhook deployment server (src/index.js): the trigger handler, the      *)
(* deployApp state machine, the date-partitioned log files written by      *)
(* saveLog and read back by parseLogFile, and the two log query handlers.  *)
(*                                                                         *)
(* Text is modelled as a sequence of one-character strings, so that the    *)
(* key `${appName}-${env}`, the deployId and the "first colon" split of a  *)
(* log line are computed as the code computes them.  The stdout / stderr   *)
(* of a command is modelled by its length in characters.                   *)
(***************************************************************************)
EXTENDS Integers, Sequences, FiniteSets, TLC

VARIABLES
    APPS,       \* index.js:25   the registry: app -> env -> definition
    config,     \* index.js:26   the configuration document last loaded
    running,    \* index.js:28   the busy set of `${appName}-${env}` keys
    runs,       \* one entry per call of deployApp: its closure and its log object
    execs,      \* per run, the subprocesses exec() has started, with their outcome
    files,      \* logs/YYYYMMDD.txt: day -> sequence of lines (DOMAIN = files that exist)
    now,        \* Date.now(), in milliseconds
    today,      \* the calendar day of new Date()
    res,        \* the response of the last request served
    find        \* the GET /webhook/deploy/log/:deployId request being served

vars == <<APPS, config, running, runs, execs, files, now, today, res, find>>

----------------------------------------------------------------------------
(* Bounds of the model *)

MaxRuns == 2        \* calls of deployApp (accepted triggers)
MaxNow == 1         \* clock ticks (milliseconds)
MaxMidnights == 1   \* day changes

(* Program constants *)

OutputLimit == 1000     \* result.stdout.slice(-1000)
StderrLimit == 500      \* result.stderr.slice(-500)
ScanDays == 7           \* for (let i = 1; i <= 7; i++)
DefaultLimit == 20      \* parseInt(req.query.limit) || 20

Day0 == 8               \* the day the server is started on (days 0..7 lie before it)

----------------------------------------------------------------------------
(* Values *)

Undefined == "undefined"    \* a missing string property
NoTime == -1               \* a number / time property not set yet
NULL == [name |-> "null", command |-> "null", malformed |-> TRUE]   \* a null step entry

Step(n, c) == [name |-> n, command |-> c, malformed |-> FALSE]

StepLabel(i) == <<"Step 1", "Step 2", "Step 3", "Step 4">>[i]  \* `Step ${i + 1}` of line 359

(* the lengths of the stdout and stderr a command may produce: exactly the
   lengths the success branch keeps, and one character more *)
Sizes == { <<OutputLimit, StderrLimit>>, <<OutputLimit + 1, StderrLimit + 1>> }

(* error.message of a failed exec *)
ExecError == "Command failed"
TypeErrorMsg == "Cannot read properties of null"

(* config.yml as loaded at startup: every definition has a path and a
   non-empty steps array, which is all loadConfig validates *)
Registry ==
    (<<"a">> :> (<<"b", "-", "c">> :>
        [path |-> "/srv/a", steps |-> <<Step("pull", "git pull"), Step("", "npm install")>>]))
    @@ (<<"a", "-", "b">> :> (<<"c">> :>
        [path |-> "/srv/ab", steps |-> <<Step("pull", "git pull")>>]))
    @@ (<<"a", ":">> :> (<<"c">> :>
        [path |-> "/srv/colon", steps |-> <<NULL>>]))

(* the document of config.yml the server started with *)
StartupConfig == [shellPath |-> "/bin/bash", apps |-> Registry]

(* another config.yml: two environments of one app, with keys that differ *)
PairsConfig ==
    [shellPath |-> "/bin/bash",
     apps |-> (<<"a">> :>
                 ( (<<"b", "-", "c">> :> [path |-> "/srv/a",
                       steps |-> <<Step("pull", "git pull"), Step("", "npm install")>>])
                   @@ (<<"d">> :> [path |-> "/srv/d",
                       steps |-> <<Step("pull", "git pull"), Step("build", "npm run build")>>]) ))]

(* the (app, env) bodies of the trigger requests; <<>> is a missing field *)
Requests ==
    { << <<>>, <<"c">> >>,                      \* no app
      << <<"z">>, <<"c">> >>,                   \* an app the registry does not have
      << <<"a">>, <<"c">> >>,                   \* an environment the app does not have
      << <<"a">>, <<"b", "-", "c">> >>,
      << <<"a">>, <<"d">> >>,                   \* registered in PairsConfig only
      << <<"a", "-", "b">>, <<"c">> >>,
      << <<"a", ":">>, <<"c">> >> }

----------------------------------------------------------------------------
(* Text helpers *)

Min(a, b) == IF a < b THEN a ELSE b

(* s.indexOf(c), 1-based; 0 when absent *)
IndexOf(s, c) ==
    IF \E p \in 1..Len(s) : s[p] = c
    THEN CHOOSE p \in 1..Len(s) : s[p] = c /\ \A q \in 1..(p - 1) : s[q] # c
    ELSE 0

(* s.includes(t) *)
Includes(s, t) ==
    \E p \in 0..(Len(s) - Len(t)) : \A q \in 1..Len(t) : s[p + q] = t[q]

(* the text of a number, as one token *)
NumText(n) == <<ToString(n)>>

(* `${appName}-${env}` of lines 215, 353 and 414 *)
RunKey(appName, env) == appName \o <<"-">> \o env

(* `${appName}-${env}-${Date.now()}` of line 222 *)
MakeDeployId(appName, env, t) == appName \o <<"-">> \o env \o <<"-">> \o NumText(t)

(* s.slice(-n) of a string of length len: the length of the result *)
SliceTail(len, n) == Min(len, n)

(* a || b on string lengths: NoTime stands for undefined, 0 for "" (both falsy) *)
OrLen(a, b) == IF a > 0 THEN a ELSE b

----------------------------------------------------------------------------
(* RunGuard: the busy set *)

(* the busy check left out *)
BusyUnchecked(set, key) == FALSE

(* running.delete left out: the key stays in the busy set *)
ReleaseNothing(set, key) == set

Busy(set, key) == key \in set               \* running.has(key)
Acquire(set, key) == set \cup {key}         \* running.add(key)
Release(set, key) == set \ {key}            \* running.delete(key)

----------------------------------------------------------------------------
(* deployApp *)

EmptyLine == [id |-> <<>>, sep |-> FALSE, ok |-> FALSE, json |-> <<>>]

(* lines 342-351: the closure of one call and its log object *)
NewRun(deployId, appName, env, envConfig) ==
    [ deployId |-> deployId, app |-> appName, env |-> env, config |-> envConfig,
      startTime |-> now, status |-> "in-progress", path |-> envConfig.path,
      steps |-> <<>>, error |-> Undefined, duration |-> NoTime, endTime |-> NoTime,
      i |-> 0, stepStartTime |-> NoTime, pc |-> "start",
      saveCalls |-> 0, logFile |-> NoTime, logLine |-> EmptyLine,
      result |-> "pending" ]

(* line 359 *)
StepName(step, i) == IF step.name = "" THEN StepLabel(i + 1) ELSE step.name

(* the loop index used as the order *)
SuccessResultZeroBased(r, out, err) ==
    LET step == r.config.steps[r.i + 1] IN
    [ order |-> r.i, name |-> StepName(step, r.i), command |-> step.command,
      status |-> "success", duration |-> now - r.stepStartTime,
      output |-> IF out > 0 THEN SliceTail(out, OutputLimit) ELSE 0,
      stderr |-> IF err > 0 THEN SliceTail(err, StderrLimit) ELSE 0,
      error |-> Undefined, stdout |-> NoTime ]

(* lines 367-377: the step result of a command that succeeded *)
SuccessResult(r, out, err) ==
    LET step == r.config.steps[r.i + 1] IN
    [ order |-> r.i + 1, name |-> StepName(step, r.i), command |-> step.command,
      status |-> "success", duration |-> now - r.stepStartTime,
      output |-> IF out > 0 THEN SliceTail(out, OutputLimit) ELSE 0,
      stderr |-> IF err > 0 THEN SliceTail(err, StderrLimit) ELSE 0,
      error |-> Undefined, stdout |-> NoTime ]

(* lines 383-394: the step result of a command that failed *)
ErrorResult(r, msg, out, err) ==
    LET step == r.config.steps[r.i + 1] IN
    [ order |-> r.i + 1, name |-> StepName(step, r.i), command |-> step.command,
      status |-> "error", duration |-> now - r.startTime,
      output |-> NoTime, stderr |-> err, error |-> msg, stdout |-> out ]

(* lines 408-412: the outer catch *)
Catch(r, msg) ==
    [r EXCEPT !.status = "failed", !.duration = now - r.startTime, !.error = msg]

(* lines 417-418 and saveLog up to its first await (line 164, fs.mkdir started) *)
CallSaveLog(r) ==
    [r EXCEPT !.endTime = now, !.saveCalls = @ + 1, !.pc = "mkdir"]

(* lines 357-366 and 402-407: from the head of the loop to the next await *)
Loop(r) ==
    IF r.i < Len(r.config.steps)
    THEN IF r.config.steps[r.i + 1].malformed
         THEN CallSaveLog(Catch(r, TypeErrorMsg))      \* step.name throws a TypeError
         ELSE [r EXCEPT !.pc = "exec", !.stepStartTime = now]
    ELSE CallSaveLog([r EXCEPT !.status = "success", !.duration = now - r.startTime])

(* the delete placed at the end of the try block instead of in finally *)
ReleaseOnSuccessOnly(set, r) ==
    IF r.pc = "exec" \/ r.status # "success" THEN set
    ELSE Release(set, RunKey(r.app, r.env))

(* lines 413-415: the finally block runs when the run has left the loop *)
Finally(set, r) ==
    IF r.pc = "exec" THEN set ELSE Release(set, RunKey(r.app, r.env))

(* the commands of all the remaining steps started at once *)
SpawnAll(log, r) ==
    IF r.pc = "exec"
    THEN log \o [p \in 1..(Len(r.config.steps) - r.i) |->
                    [step |-> r.i + p, state |-> "running"]]
    ELSE log

(* the subprocess exec() starts for a run that has reached line 366 *)
Spawn(log, r) ==
    IF r.pc = "exec" THEN Append(log, [step |-> r.i + 1, state |-> "running"]) ELSE log

----------------------------------------------------------------------------
(* saveLog and the log lines *)

(* lines 169-178: the step objects of a log line *)
FormatSteps(steps) ==
    [ index \in 1..Len(steps) |->
        [ step |-> index - 1,
          name |-> steps[index].name,
          command |-> steps[index].command,
          status |-> steps[index].status,
          duration |-> steps[index].duration,
          output |-> OrLen(steps[index].output, OrLen(steps[index].stdout, 0)),
          stderr |-> OrLen(steps[index].stderr, 0),
          error |-> IF steps[index].error = Undefined THEN "" ELSE steps[index].error ] ]

(* line 180: `${logEntry.deployId}: ${JSON.stringify(formattedSteps)}\n`.
   A line of a partition is its text before the ": " separator (id), whether
   the separator and a payload follow (sep), whether that payload is
   well-formed JSON (ok), and the value the payload encodes (json). *)
LogLine(deployId, formattedSteps) ==
    [id |-> deployId, sep |-> TRUE, ok |-> TRUE, json |-> formattedSteps]

(* fs.writeFile in the place of fs.appendFile: the file is replaced *)
WriteFile(fs, day, line) ==
    IF day \in DOMAIN fs
    THEN [fs EXCEPT ![day] = <<line>>]
    ELSE fs @@ (day :> <<line>>)

(* the line written at the head of the file instead of its end *)
PrependFile(fs, day, line) ==
    IF day \in DOMAIN fs
    THEN [fs EXCEPT ![day] = <<line>> \o @]
    ELSE fs @@ (day :> <<line>>)

(* fs.appendFile(logFilePath, logLine): creates the file when it is missing *)
AppendFile(fs, day, line) ==
    IF day \in DOMAIN fs
    THEN [fs EXCEPT ![day] = Append(@, line)]
    ELSE fs @@ (day :> <<line>>)

(* lines 166-183: after ensureLogsDir has settled, up to the await of appendFile *)
PrepareLine(r) ==
    [r EXCEPT !.logFile = today,
              !.logLine = LogLine(r.deployId, FormatSteps(r.steps)),
              !.pc = "append"]

(* lines 39-45 and 164: fs.mkdir has settled; ensureLogsDir catches a failure
   and saveLog goes on to build the line *)
EnsureLogsDirSettled(r, created) == PrepareLine(r)

(* saveLog without its catch: a failed write fails the run and rejects deployApp *)
SaveLogThrows(r, written) ==
    IF written THEN [r EXCEPT !.pc = "done", !.result = "resolved"]
    ELSE [r EXCEPT !.pc = "done", !.result = "rejected", !.status = "failed"]

(* lines 183-186 and 418-419: appendFile has settled; a failure is caught and
   logged by saveLog, and deployApp returns *)
SaveLogSettled(r, written) ==
    [r EXCEPT !.pc = "done", !.result = "resolved"]

----------------------------------------------------------------------------
(* POST /webhook/deploy, lines 190-236 *)

(* a response: the endpoint, the HTTP status, the error text and the JSON body *)
Response(kind, status, error, body) ==
    [kind |-> kind, status |-> status, error |-> error, body |-> body]

Reject(msg) == Response("deploy", 400, msg, <<>>)          \* res.status(400).json(...)

(* lines 194-219: the error of the request, "" when it is accepted *)
Validate(appName, env) ==
    IF appName = <<>> \/ env = <<>> THEN "Missing required fields"
    ELSE IF appName \notin DOMAIN APPS THEN "App not found"
    ELSE IF env \notin DOMAIN APPS[appName] THEN "Environment not found"
    ELSE IF Busy(running, RunKey(appName, env)) THEN "Deployment already running"
    ELSE ""

(* running.add placed ahead of the checks of lines 201-219 *)
DeployAddsFirst(appName, env) ==
    LET err == Validate(appName, env) IN
    IF err # ""
    THEN /\ res' = Reject(err)
         /\ running' = Acquire(running, RunKey(appName, env))
         /\ UNCHANGED <<APPS, config, runs, execs, files, now, today, find>>
    ELSE LET envConfig == APPS[appName][env]
             deployId == MakeDeployId(appName, env, now)
             r == Loop(NewRun(deployId, appName, env, envConfig))
         IN /\ Len(runs) < MaxRuns
            /\ res' = Response("deploy", 200, "",
                                [deployId |-> deployId, app |-> appName, env |-> env,
                                 steps |-> Len(envConfig.steps)])
            /\ running' = Finally(Acquire(running, RunKey(appName, env)), r)
            /\ runs' = Append(runs, r)
            /\ execs' = Append(execs, Spawn(<<>>, r))
            /\ UNCHANGED <<APPS, config, files, now, today, find>>

Deploy(appName, env) ==
    LET err == Validate(appName, env) IN
    IF err # ""
    THEN /\ res' = Reject(err)
         /\ UNCHANGED <<APPS, config, running, runs, execs, files, now, today, find>>
    ELSE LET envConfig == APPS[appName][env]
             deployId == MakeDeployId(appName, env, now)
             r == Loop(NewRun(deployId, appName, env, envConfig))
         IN /\ Len(runs) < MaxRuns
            /\ res' = Response("deploy", 200, "",
                                [deployId |-> deployId, app |-> appName, env |-> env,
                                 steps |-> Len(envConfig.steps)])
            /\ running' = Finally(Acquire(running, RunKey(appName, env)), r)
            /\ runs' = Append(runs, r)
            /\ execs' = Append(execs, Spawn(<<>>, r))
            /\ UNCHANGED <<APPS, config, files, now, today, find>>

(* the exec callback of lines 151-157 and the rest of the loop body *)
ExecSucceeded(k, out, err) ==
    /\ k \in 1..Len(runs)
    /\ runs[k].pc = "exec"
    /\ LET r0 == runs[k]
           r == Loop([r0 EXCEPT !.steps = Append(@, SuccessResult(r0, out, err)),
                                !.i = @ + 1])
           done == [execs[k] EXCEPT ![Len(execs[k])].state = "ok"]
       IN /\ runs' = [runs EXCEPT ![k] = r]
          /\ running' = Finally(running, r)
          /\ execs' = [execs EXCEPT ![k] = Spawn(done, r)]
    /\ UNCHANGED <<APPS, config, files, now, today, res, find>>

(* the failed step recorded, but the error not re-thrown: the loop goes on *)
ExecFailedGoesOn(k, out, err) ==
    /\ k \in 1..Len(runs)
    /\ runs[k].pc = "exec"
    /\ LET r0 == runs[k]
           r == Loop([r0 EXCEPT !.steps = Append(@, ErrorResult(r0, ExecError, out, err)),
                                !.i = @ + 1])
           done == [execs[k] EXCEPT ![Len(execs[k])].state = "failed"]
       IN /\ runs' = [runs EXCEPT ![k] = r]
          /\ running' = Finally(running, r)
          /\ execs' = [execs EXCEPT ![k] = Spawn(done, r)]
    /\ UNCHANGED <<APPS, config, files, now, today, res, find>>

ExecFailed(k, out, err) ==
    /\ k \in 1..Len(runs)
    /\ runs[k].pc = "exec"
    /\ LET r0 == runs[k]
           r == CallSaveLog(Catch(
                    [r0 EXCEPT !.steps = Append(@, ErrorResult(r0, ExecError, out, err))],
                    ExecError))
       IN /\ runs' = [runs EXCEPT ![k] = r]
          /\ running' = Finally(running, r)
          /\ execs' = [execs EXCEPT ![k][Len(execs[k])].state = "failed"]
    /\ UNCHANGED <<APPS, config, files, now, today, res, find>>

(* fs.mkdir of ensureLogsDir has settled (a failure is caught at line 42) *)
MkdirSettled(k, created) ==
    /\ k \in 1..Len(runs)
    /\ runs[k].pc = "mkdir"
    /\ runs' = [runs EXCEPT ![k] = EnsureLogsDirSettled(@, created)]
    /\ UNCHANGED <<APPS, config, running, execs, files, now, today, res, find>>

(* fs.appendFile has settled: the line is written, or the write failed *)
AppendSettled(k, written) ==
    /\ k \in 1..Len(runs)
    /\ runs[k].pc = "append"
    /\ files' = IF written THEN AppendFile(files, runs[k].logFile, runs[k].logLine)
                ELSE files
    /\ runs' = [runs EXCEPT ![k] = SaveLogSettled(@, written)]
    /\ UNCHANGED <<APPS, config, running, execs, now, today, res, find>>

(* POST /reload-config *)

(* the config.yml a reload may find: a file that cannot be read, the file
   the server started with, a document without shellPath (and with one app
   only), and a document with a definition whose steps array is empty *)
ConfigFiles ==
    { [readable |-> FALSE, doc |-> StartupConfig],
      [readable |-> TRUE, doc |-> StartupConfig],
      [readable |-> TRUE,
       doc |-> [shellPath |-> "",
                apps |-> (<<"a", "-", "b">> :> (<<"c">> :>
                    [path |-> "/srv/ab", steps |-> <<Step("pull", "git pull")>>]))]],
      [readable |-> TRUE,
       doc |-> [shellPath |-> "/bin/sh",
                apps |-> (<<"a">> :> (<<"b", "-", "c">> :>
                    [path |-> "/srv/a", steps |-> << >>]))]] }

(* lines 82-96: the error of the first definition that fails validation *)
ValidateApps(apps) ==
    IF \E a \in DOMAIN apps : \E e \in DOMAIN apps[a] : apps[a][e].path = ""
    THEN "Missing 'path'"
    ELSE IF \E a \in DOMAIN apps : \E e \in DOMAIN apps[a] : apps[a][e].steps = << >>
         THEN "No steps defined"
         ELSE ""

(* lines 71-104, from the moment readFile has settled: the values of the
   globals config and APPS when loadConfig returns or throws, and the
   message of the error thrown ("" when it returns) *)
loadConfig(file) ==
    IF ~file.readable
    THEN [config |-> config, APPS |-> APPS, error |-> "ENOENT"]        \* line 73 throws
    ELSE [config |-> file.doc,                                         \* line 74
          APPS |-> file.doc.apps,                                      \* line 75
          error |-> IF file.doc.shellPath = "" THEN "shellPath is not set"
                    ELSE ValidateApps(file.doc.apps)]

(* lines 107-126 *)
ReloadConfig(file) ==
    LET loaded == loadConfig(file) IN
    /\ config' = loaded.config
    /\ APPS' = loaded.APPS
    /\ res' = IF loaded.error = ""
              THEN Response("reload", 200, "", [apps |-> DOMAIN loaded.APPS])
              ELSE Response("reload", 500, "Failed to reload config",
                            [details |-> loaded.error])
    /\ UNCHANGED <<running, runs, execs, files, now, today, find>>

(* the clock *)
Tick ==
    /\ now < MaxNow
    /\ now' = now + 1
    /\ UNCHANGED <<APPS, config, running, runs, execs, files, today, res, find>>

Midnight ==
    /\ today < Day0 + MaxMidnights
    /\ today' = today + 1
    /\ UNCHANGED <<APPS, config, running, runs, execs, files, now, res, find>>

----------------------------------------------------------------------------
(* Reading the partitions *)

(* line 50: a line whose trim() is empty is dropped *)
IsBlank(line) == line.id = <<>> /\ ~line.sep

(* lines 54-61 for one line: <<entry>>, or << >> when the line is skipped.
   The line is split at its FIRST colon.  When that colon lies inside the
   text before the separator, the JSON text is the rest of that text
   followed by ": " and the payload, which JSON.parse rejects. *)
ParseLine(line) ==
    LET colonIndex == IndexOf(line.id, ":") IN
    IF colonIndex = 0 /\ ~line.sep THEN << >>                  \* no colon: continue
    ELSE IF colonIndex = 0
         THEN IF line.ok
              THEN << [deployId |-> line.id, steps |-> line.json] >>
              ELSE << >>                                        \* JSON.parse throws
         ELSE << >>                                             \* JSON.parse throws

(* lines 48-68 *)
RECURSIVE parseLogFile(_)
parseLogFile(content) ==
    IF content = << >> THEN << >>
    ELSE IF IsBlank(Head(content)) THEN parseLogFile(Tail(content))
    ELSE ParseLine(Head(content)) \o parseLogFile(Tail(content))

(* one try/catch around the whole parse: a line that does not parse makes
   the read of its file give no logs *)
ReadLogsAllOrNothing(fs, day) ==
    IF day \in DOMAIN fs
       /\ \A p \in 1..Len(fs[day]) : IsBlank(fs[day][p]) \/ ParseLine(fs[day][p]) # << >>
    THEN parseLogFile(fs[day])
    ELSE << >>

(* fs.readFile + parseLogFile, with the catch of a missing file: logs stays [] *)
ReadLogs(fs, day) ==
    IF day \in DOMAIN fs THEN parseLogFile(fs[day]) ELSE << >>

(* logs.filter(pred) *)
RECURSIVE FilterIncludes(_, _)
FilterIncludes(logs, text) ==
    IF logs = << >> THEN << >>
    ELSE IF Includes(Head(logs).deployId, text)
         THEN <<Head(logs)>> \o FilterIncludes(Tail(logs), text)
         ELSE FilterIncludes(Tail(logs), text)

(* slice(0, limit + 1) *)
SliceHeadOneMore(logs, limit) ==
    SubSeq(logs, 1, Min(limit + 1, Len(logs)))

(* logs.slice(0, limit) *)
SliceHead(logs, limit) ==
    IF limit >= 0 THEN SubSeq(logs, 1, Min(limit, Len(logs)))
    ELSE SubSeq(logs, 1, Len(logs) + limit)

(* logs.find((l) => l.deployId === id): <<log>> or << >> *)
FindLog(logs, id) ==
    IF \E p \in 1..Len(logs) : logs[p].deployId = id
    THEN << logs[CHOOSE p \in 1..Len(logs) :
                   /\ logs[p].deployId = id
                   /\ \A q \in 1..(p - 1) : logs[q].deployId # id] >>
    ELSE << >>

(* getLogFilePath(date): one file per calendar day *)
getLogFilePath(day) == day

(* GET /webhook/deploy/log, lines 239-286.  limit 0 stands for a missing or
   non-numeric limit, <<>> for a missing filter, NoTime for a missing date. *)
QueryLogs(limit, app, env, date) ==
    LET lim == IF limit = 0 THEN DefaultLimit ELSE limit
        all == IF date # NoTime THEN ReadLogs(files, date)
               ELSE ReadLogs(files, getLogFilePath(today))
        byApp == IF app # <<>> THEN FilterIncludes(all, app) ELSE all
        byEnv == IF env # <<>> THEN FilterIncludes(byApp, env) ELSE byApp
    IN /\ res' = Response("query", 200, "",
                    [logs |-> SliceHead(byEnv, lim), total |-> Len(byEnv),
                     filters |-> [app |-> app, env |-> env, date |-> date],
                     limit |-> limit])
       /\ UNCHANGED <<APPS, config, running, runs, execs, files, now, today, find>>

(* GET /webhook/deploy/log/:deployId, lines 289-338.  The handler awaits each
   readFile; the path of each read is computed from a fresh new Date(). *)
NoFind == [pc |-> "idle", id |-> <<>>, i |-> 0, file |-> NoTime, arrived |-> NoTime]

(* lines 295-300: the request arrives and today's file is being read *)
FindArrives(id) ==
    /\ find.pc = "idle"
    /\ find' = [pc |-> "read", id |-> id, i |-> 0,
                file |-> getLogFilePath(today), arrived |-> today]
    /\ UNCHANGED <<APPS, config, running, runs, execs, files, now, today, res>>

(* lines 300-331: a readFile has settled *)
FindRead ==
    /\ find.pc = "read"
    /\ LET log == FindLog(ReadLogs(files, find.file), find.id) IN
       IF log # << >>
       THEN /\ res' = Response("find", 200, "", [log |-> log[1], id |-> find.id,
                                                  arrived |-> find.arrived])
            /\ find' = NoFind
       ELSE IF find.i + 1 <= ScanDays
            THEN /\ find' = [find EXCEPT !.i = @ + 1,
                                         !.file = getLogFilePath(today - (find.i + 1))]
                 /\ UNCHANGED res
            ELSE /\ res' = Response("find", 404, "Log not found",
                                    [log |-> EmptyLine, id |-> find.id,
                                     arrived |-> find.arrived])
                 /\ find' = NoFind
    /\ UNCHANGED <<APPS, config, running, runs, execs, files, now, today>>

----------------------------------------------------------------------------
NoResponse == Response("none", 0, "", <<>>)

Init ==
    /\ APPS = Registry
    /\ config = StartupConfig
    /\ running = {}
    /\ runs = <<>>
    /\ execs = <<>>
    /\ files = << >>
    /\ now = 0
    /\ today = Day0
    /\ res = NoResponse
    /\ find = NoFind

(* triggers and runs, all within one millisecond of one day *)
Next ==
    \/ \E req \in Requests : Deploy(req[1], req[2])
    \/ \E k \in 1..MaxRuns, size \in Sizes : ExecSucceeded(k, size[1], size[2])
    \/ \E k \in 1..MaxRuns, size \in Sizes : ExecFailed(k, size[1], size[2])
    \/ \E k \in 1..MaxRuns, created \in BOOLEAN : MkdirSettled(k, created)
    \/ \E k \in 1..MaxRuns, written \in BOOLEAN : AppendSettled(k, written)

Spec == Init /\ [][Next]_vars

----------------------------------------------------------------------------
(* The query handlers over partitions written on earlier days *)

TargetId == <<"a", "-", "s", "-", "1">>

(* a line saveLog wrote for a one-step run; mark tells the copies apart *)
SavedLine(id, mark) ==
    LogLine(id, << [step |-> 0, name |-> "pull", command |-> "git pull",
                    status |-> "success", duration |-> mark,
                    output |-> 0, stderr |-> 0, error |-> ""] >>)

Garbage == [id |-> <<"g", "a", "r", "b">>, sep |-> FALSE, ok |-> FALSE, json |-> <<>>]
Partial(id) == [id |-> id, sep |-> TRUE, ok |-> FALSE, json |-> <<>>]

(* the partition of one day: lines of other runs, a line without a colon, a
   blank line, a line whose id holds a colon, and, last, a partial line *)
Partition(day, withTarget) ==
    << Garbage, SavedLine(<<"a", "-", "p", "-", "2">>, day) >>
    \o (IF withTarget THEN << SavedLine(TargetId, day) >> ELSE << >>)
    \o << EmptyLine, SavedLine(<<"b", "-", "s", "-", "3">>, day),
          SavedLine(<<"a", ":", "-", "s", "-", "4">>, day),
          SavedLine(<<"a", "-", "s", "-", "5">>, day),
          Partial(TargetId) >>

LogDays == 0..Day0

(* the server has been restarted on day Day0 over the files of earlier days:
   the target id was logged on the days of targetDays, and the file of the
   day `missing` does not exist *)
InitFiles(targetChoices, missingChoices) ==
    /\ APPS = Registry
    /\ config = StartupConfig
    /\ running = {}
    /\ runs = <<>>
    /\ execs = <<>>
    /\ \E targetDays \in targetChoices, missing \in missingChoices :
          files = [d \in LogDays \ {missing} |-> Partition(d, d \in targetDays)]
    /\ now = 0
    /\ today = Day0
    /\ res = NoResponse
    /\ find = NoFind

InitLog ==
    InitFiles({S \in SUBSET LogDays : Cardinality(S) <= 2}, LogDays \cup {NoTime})

InitQuery ==
    InitFiles(SUBSET {Day0 - 1, Day0}, {NoTime, Day0 - 1, Day0})

FindIds == { TargetId }

NextFind ==
    \/ \E id \in FindIds : FindArrives(id)
    \/ FindRead
    \/ Midnight

SpecFind == InitLog /\ [][NextFind]_vars

QueryLimits == {0, 1, 2}
QueryFilters == { << <<>>, <<>> >>, << <<"a">>, <<>> >>, << <<"a">>, <<"s">> >>,
                  << <<>>, <<"s">> >> }
QueryDates == {NoTime, Day0 - 1, Day0}

NextQuery ==
    \/ \E limit \in QueryLimits, f \in QueryFilters, date \in QueryDates :
          QueryLogs(limit, f[1], f[2], date)
    \/ Midnight

SpecQuery == InitQuery /\ [][NextQuery]_vars

----------------------------------------------------------------------------
(* Properties *)

RunIds == 1..Len(runs)

(* run k holds the guard slot: it is between running.add (line 353) and the
   finally block (line 414), awaiting a step's command *)
InFlight(k) == runs[k].pc = "exec"

KeyOf(k) == RunKey(runs[k].app, runs[k].env)

(* the steps whose command was started for run k, and how each ended *)
Failed(k) == {p \in 1..Len(execs[k]) : execs[k][p].state = "failed"}
AllSucceeded(k) ==
    /\ Len(execs[k]) = Len(runs[k].config.steps)
    /\ \A p \in 1..Len(execs[k]) : execs[k][p].state = "ok"

(* no two runs of one (app, env) pair are in flight together *)
C1_OnePerPair ==
    \A j, k \in RunIds :
        (j # k /\ InFlight(j) /\ InFlight(k))
            => ~(runs[j].app = runs[k].app /\ runs[j].env = runs[k].env)

(* a trigger for a pair with a run in flight is rejected and starts nothing *)
C1_SecondRejected ==
    \A req \in Requests :
        ( /\ \E k \in RunIds : InFlight(k) /\ runs[k].app = req[1] /\ runs[k].env = req[2]
          /\ Deploy(req[1], req[2]) )
        => /\ res'.status = 400
           /\ res'.error = "Deployment already running"
           /\ runs' = runs /\ running' = running /\ execs' = execs

(* C1: at most one run of an (app, env) pair holds the slot at any time, and
   a trigger for a pair with a run in flight is answered 400 "Deployment
   already running" and starts no run. *)
C1_MutualExclusion == [] C1_OnePerPair /\ [][C1_SecondRejected]_vars

C1_Witness ==
    /\ res.error = "Deployment already running"
    /\ \E k \in RunIds : InFlight(k) /\ runs[k].app = <<"a">>

(* C2 as stated: whenever deployApp has returned for a run, the slot of its
   pair is free.  (States in which a run of another pair with the same key
   string is in flight are left aside.) *)
C2_SlotFreeAfterReturn ==
    \A k \in RunIds :
        ( /\ runs[k].result = "resolved"
          /\ \A j \in RunIds :
                (InFlight(j) /\ KeyOf(j) = KeyOf(k))
                    => (runs[j].app = runs[k].app /\ runs[j].env = runs[k].env) )
        => ~Busy(running, KeyOf(k))

(* C2 as amended: a run that has left the step loop (and so every run that
   has returned) no longer holds the slot; its key is in the busy set only
   while a run accepted later under the same key is in flight. *)
C2_SlotReleased ==
    \A k \in RunIds :
        ~InFlight(k) =>
            ( Busy(running, KeyOf(k))
                => \E j \in RunIds : j > k /\ InFlight(j) /\ KeyOf(j) = KeyOf(k) )

C2_Witness ==
    \E k \in RunIds :
        /\ runs[k].result = "resolved"
        /\ runs[k].error = TypeErrorMsg
        /\ runs[k].steps = << >>
        /\ ~Busy(running, KeyOf(k))

(* C3: when the command of step i is the first to fail, no later step is
   started, the record holds i step results (i-1 successes, then the
   error), and the run is failed with that step's error message. *)
C3_FailFast ==
    \A k \in RunIds :
        (runs[k].status # "in-progress" /\ Failed(k) # {}) =>
            LET i == execs[k][CHOOSE p \in Failed(k) : \A q \in Failed(k) : p <= q].step
            IN /\ Len(execs[k]) = i
               /\ \A p \in 1..i : execs[k][p].step = p
               /\ Len(runs[k].steps) = i
               /\ \A p \in 1..(i - 1) : runs[k].steps[p].status = "success"
               /\ runs[k].steps[i].status = "error"
               /\ runs[k].status = "failed"
               /\ runs[k].error = ExecError
               /\ runs[k].error = runs[k].steps[i].error

C3_Witness ==
    \E k \in RunIds :
        /\ runs[k].pc = "done"
        /\ Len(runs[k].config.steps) = 2
        /\ Len(execs[k]) = 1
        /\ execs[k][1].state = "failed"

(* C4: when every step's command succeeded, the record is a success with
   one result per step of the definition, in order, numbered 1..n. *)
C4_AllSucceed ==
    \A k \in RunIds :
        (runs[k].status # "in-progress" /\ AllSucceeded(k)) =>
            /\ runs[k].status = "success"
            /\ Len(runs[k].steps) = Len(runs[k].config.steps)
            /\ \A p \in 1..Len(runs[k].steps) :
                  /\ runs[k].steps[p].order = p
                  /\ runs[k].steps[p].command = runs[k].config.steps[p].command
                  /\ runs[k].steps[p].status = "success"

C4_Witness ==
    \E k \in RunIds :
        /\ runs[k].pc = "done"
        /\ Len(runs[k].config.steps) = 2
        /\ AllSucceeded(k)

(* every line of every partition, as <<day, position>> *)
LinePlaces == UNION { { <<d, p>> : p \in 1..Len(files[d]) } : d \in DOMAIN files }
LineAt(pl) == files[pl[1]][pl[2]]

(* run k has returned and its line was written *)
Persisted(k) ==
    /\ runs[k].pc = "done"
    /\ \E pl \in LinePlaces : LineAt(pl) = runs[k].logLine

(* C5: in every step object of every line written to a partition, output is
   at most 1000 characters and stderr at most 500. *)
C5_PersistedBounds ==
    \A pl \in LinePlaces :
        \A p \in 1..Len(LineAt(pl).json) :
            /\ LineAt(pl).json[p].output <= OutputLimit
            /\ LineAt(pl).json[p].stderr <= StderrLimit

(* C6: parsing the line saveLog wrote for a run gives back, for each step of
   the run record, its order, name, command, status and duration. *)
C6_RoundTrip ==
    \A k \in RunIds :
        Persisted(k) =>
            \A p \in 1..Len(runs[k].steps) :
                LET parsed == parseLogFile(<<runs[k].logLine>>) IN
                /\ Len(parsed) = 1
                /\ p <= Len(parsed[1].steps)
                /\ "order" \in DOMAIN parsed[1].steps[p]
                /\ parsed[1].steps[p].order = runs[k].steps[p].order
                /\ parsed[1].steps[p].name = runs[k].steps[p].name
                /\ parsed[1].steps[p].command = runs[k].steps[p].command
                /\ parsed[1].steps[p].status = runs[k].steps[p].status
                /\ parsed[1].steps[p].duration = runs[k].steps[p].duration

(* saveLog is called once, on a finished record; one line at most per run *)
C9_Handed ==
    /\ \A k \in RunIds :
          /\ InFlight(k) => runs[k].saveCalls = 0 /\ runs[k].status = "in-progress"
          /\ ~InFlight(k) => /\ runs[k].saveCalls = 1
                             /\ runs[k].status \in {"success", "failed"}
                             /\ runs[k].endTime # NoTime
    /\ Cardinality(LinePlaces) <= Cardinality({k \in RunIds : runs[k].pc = "done"})
    /\ \A pl \in LinePlaces : \E k \in RunIds : Persisted(k) /\ runs[k].logLine = LineAt(pl)

(* a step only ever adds one line at the end of one partition *)
C9_AppendOnly ==
    /\ \A d \in DOMAIN files :
          /\ d \in DOMAIN files'
          /\ Len(files'[d]) >= Len(files[d])
          /\ SubSeq(files'[d], 1, Len(files[d])) = files[d]
    /\ Cardinality(LinePlaces') <= Cardinality(LinePlaces) + 1

(* C9: saveLog is called once per run, after the status has left in-progress
   and endTime is set; a run appends at most one line; lines already in a
   partition are never changed or removed. *)
C9_OneRecordPerRun == [] C9_Handed /\ [][C9_AppendOnly]_vars

C9_Witness ==
    /\ Cardinality({k \in RunIds : Persisted(k)}) = 2
    /\ Cardinality(LinePlaces) = 2

(* a run that has returned: resolved, status by the step outcomes, slot not held *)
C10_Settled ==
    \A k \in RunIds :
        runs[k].pc = "done" =>
            /\ runs[k].result = "resolved"
            /\ runs[k].status = (IF AllSucceeded(k) THEN "success" ELSE "failed")
            /\ Busy(running, KeyOf(k))
                  => \E j \in RunIds : j # k /\ InFlight(j) /\ KeyOf(j) = KeyOf(k)

(* once saveLog is called, nothing changes the status or the error of the run *)
C10_StatusKept ==
    \A k \in RunIds :
        runs[k].saveCalls > 0 =>
            /\ runs'[k].status = runs[k].status
            /\ runs'[k].error = runs[k].error
            /\ runs'[k].result # "rejected"

(* C10: a failure of mkdir or of appendFile leaves the status of the run as
   the step outcomes made it, does not reject deployApp, and does not leave
   the run holding the slot. *)
C10_PersistenceFailure == [] C10_Settled /\ [][C10_StatusKept]_vars

(* the run succeeded, has returned, and its line is in no partition *)
C10_Witness ==
    \E k \in RunIds :
        /\ runs[k].pc = "done"
        /\ runs[k].status = "success"
        /\ ~Persisted(k)
        /\ \A j \in RunIds : runs[j].logLine # runs[k].logLine \/ j = k

(* a line that holds a record: a colon, and JSON after the first colon *)
IsRecord(line) == line.sep /\ line.ok /\ \A p \in 1..Len(line.id) : line.id[p] # ":"

(* the positions of the records with the given id in the partition of a day *)
RecordsOf(day, id) ==
    IF day \in DOMAIN files
    THEN {p \in 1..Len(files[day]) : IsRecord(files[day][p]) /\ files[day][p].id = id}
    ELSE {}

Least(S) == CHOOSE x \in S : \A y \in S : x <= y

(* C7: findById answers from the first of the partitions of the day the
   request arrived, the day before, ..., 7 days before that holds the id,
   and answers 404 exactly when none of these 8 partitions holds it. *)
C7_FindById ==
    res.kind = "find" =>
        LET arrived == res.body.arrived
            id == res.body.id
            hits == {j \in 0..ScanDays : RecordsOf(arrived - j, id) # {}}
        IN /\ res.status = 404 <=> hits = {}
           /\ res.status = 200 =>
                 /\ hits # {}
                 /\ res.body.log.deployId = id
                 /\ res.body.log.steps =
                       files[arrived - Least(hits)]
                            [Least(RecordsOf(arrived - Least(hits), id))].json

(* the answer res' of a query served in the current state *)
C8_Answer ==
    LET body == res'.body
        day == IF body.filters.date # NoTime THEN body.filters.date ELSE today
        lines == IF day \in DOMAIN files THEN files[day] ELSE << >>
        matching == {p \in 1..Len(lines) :
                        /\ IsRecord(lines[p])
                        /\ body.filters.app # <<>> => Includes(lines[p].id, body.filters.app)
                        /\ body.filters.env # <<>> => Includes(lines[p].id, body.filters.env)}
        nth(q) == CHOOSE p \in matching : Cardinality({o \in matching : o < p}) = q - 1
    IN /\ res'.status = 200
       /\ body.total = Cardinality(matching)
       /\ day \notin DOMAIN files => body.total = 0 /\ body.logs = << >>
       /\ body.limit > 0 =>
             /\ Len(body.logs) = Min(body.limit, body.total)
             /\ \A q \in 1..Len(body.logs) :
                   /\ body.logs[q].deployId = lines[nth(q)].id
                   /\ body.logs[q].steps = lines[nth(q)].json

(* C8: query reads the partition of the given date, else today's; total is
   the number of its records whose id contains the filters, and for a
   positive limit the answer is the first min(limit, total) of them in file
   order; a missing file gives no records and total 0. *)
C8_Query == [][(res' # res /\ res'.kind = "query") => C8_Answer]_vars

C8_Witness ==
    /\ res.kind = "query"
    /\ res.body.limit = 1
    /\ res.body.filters.date = Day0 - 1
    /\ res.body.total = 3
    /\ Len(res.body.logs) = 1

----------------------------------------------------------------------------
(* the runs that hold a slot, with the step each is at *)
RunsInFlight == { <<k, runs[k].i>> : k \in {j \in RunIds : InFlight(j)} }

(* the trigger of req is answered with a 400 *)
C11_Rejected(req) == Deploy(req[1], req[2]) /\ res'.status = 400

(* C11: a trigger rejected for an unknown app, an unknown environment or a
   run in flight changes nothing but the response: the busy set, the
   partitions, the runs and the runs in flight stay as they were, and no
   command is started. *)
C11_RejectionFrame ==
    [][ \A req \in Requests :
           C11_Rejected(req) =>
              /\ res'.error \in {"Missing required fields", "App not found",
                                 "Environment not found", "Deployment already running"}
              /\ running' = running
              /\ files' = files
              /\ runs' = runs
              /\ RunsInFlight' = RunsInFlight
              /\ execs' = execs ]_vars

(* an unknown environment has been rejected while a run was in flight *)
C11_Witness ==
    /\ res.kind = "deploy"
    /\ res.status = 400
    /\ res.error = "Environment not found"
    /\ \E k \in RunIds : InFlight(k)

----------------------------------------------------------------------------
(* Triggers and runs with the clock advancing *)

NextClock ==
    \/ Next
    \/ Tick

SpecClock == Init /\ [][NextClock]_vars

(* C12: no two accepted triggers are given the same deployId, whatever
   their (app, env) pairs and even when both are accepted within one clock
   millisecond. *)
C12_UniqueIds ==
    \A j, k \in RunIds : j # k => runs[j].deployId # runs[k].deployId

----------------------------------------------------------------------------
(* Triggers and runs when every command that was started finishes: the exec
   callback of lines 151-157 is called for each of them (at the latest when
   the timeout of line 143 kills the command).  How much a command prints
   plays no part here: each prints OutputLimit and StderrLimit characters. *)

ExecSettles(k) ==
    \/ ExecSucceeded(k, OutputLimit, StderrLimit)
    \/ ExecFailed(k, OutputLimit, StderrLimit)

NextLive ==
    \/ \E req \in Requests : Deploy(req[1], req[2])
    \/ \E k \in 1..MaxRuns : ExecSettles(k)
    \/ \E k \in 1..MaxRuns, created \in BOOLEAN : MkdirSettled(k, created)
    \/ \E k \in 1..MaxRuns, written \in BOOLEAN : AppendSettled(k, written)

SpecLive == Init /\ [][NextLive]_vars /\ \A k \in 1..MaxRuns : WF_vars(ExecSettles(k))

(* run k has a terminal status and the slot of its pair is free *)
C13_Finished(k) ==
    /\ k \in RunIds
    /\ runs[k].status \in {"success", "failed"}
    /\ ~InFlight(k)
    /\ ~Busy(running, KeyOf(k))

(* C13: when every command that is started finishes, every accepted run
   reaches the status success or failed and the slot of its pair becomes
   free, so that a later trigger for the pair can be accepted. *)
C13_RunsFinish ==
    \A k \in 1..MaxRuns : (k \in RunIds) ~> C13_Finished(k)

(* a pair was triggered again and accepted after its first run, which ran
   both of its commands, had finished *)
C13_Witness ==
    \E j, k \in RunIds :
        /\ j < k
        /\ runs[j].app = runs[k].app /\ runs[j].env = runs[k].env
        /\ Len(execs[j]) = 2
        /\ runs[j].status = "success"
        /\ InFlight(k)

----------------------------------------------------------------------------
(* Triggers and runs of a server started with PairsConfig, where runs of two
   pairs are in flight together *)

InitPairs ==
    /\ APPS = PairsConfig.apps
    /\ config = PairsConfig
    /\ running = {}
    /\ runs = <<>>
    /\ execs = <<>>
    /\ files = << >>
    /\ now = 0
    /\ today = Day0
    /\ res = NoResponse
    /\ find = NoFind

SpecPairs == InitPairs /\ [][Next]_vars

(* the commands of run k that are executing *)
Executing(k) == {p \in 1..Len(execs[k]) : execs[k][p].state = "running"}

(* the commands of run k were started in step order, each after the result
   of the one before it was recorded, and one at most is executing *)
C14_InOrder ==
    \A k \in RunIds :
        /\ \A p \in 1..Len(execs[k]) : execs[k][p].step = p
        /\ Cardinality(Executing(k)) <= 1
        /\ Executing(k) \subseteq {Len(execs[k])}
        /\ Len(runs[k].steps) = Len(execs[k]) - Cardinality(Executing(k))
        /\ \A p \in 1..Len(runs[k].steps) : runs[k].steps[p].order = p
        /\ InFlight(k) <=> Executing(k) # {}

(* a step that starts a command of run k finds no command of run k
   executing after it but the new one, and has recorded the result of the
   command before it *)
C14_StartsAfterResult ==
    \A k \in RunIds :
        (k \in DOMAIN execs /\ Len(execs'[k]) > Len(execs[k])) =>
            /\ Len(execs'[k]) = Len(execs[k]) + 1
            /\ Len(runs'[k].steps) = Len(execs[k])
            /\ Executing(k)' = {Len(execs'[k])}

(* C14: the steps of one run execute one after the other: the command of
   step N+1 is not started before the result of step N is in the record,
   and no two commands of one run execute together, also while other runs
   execute their steps. *)
C14_Sequential == [] C14_InOrder /\ [][C14_StartsAfterResult]_vars

(* two runs are at their second step together *)
C14_Witness ==
    \E j, k \in RunIds :
        /\ j # k
        /\ Executing(j) = {2}
        /\ Executing(k) = {2}

----------------------------------------------------------------------------
(* Both query handlers over partitions that hold lines that do not parse *)

NextLog ==
    \/ \E id \in FindIds : FindArrives(id)
    \/ FindRead
    \/ \E limit \in QueryLimits, f \in QueryFilters, date \in QueryDates :
          QueryLogs(limit, f[1], f[2], date)
    \/ Midnight

SpecLog == InitQuery /\ [][NextLog]_vars

(* the lines of a partition that hold a record *)
GoodLines(lines) == SelectSeq(lines, IsRecord)

(* the partitions without their lines that do not hold a record *)
WithoutBadLines == [d \in DOMAIN files |-> GoodLines(files[d])]

(* the records of the partition of a day, in file order *)
RecordsIn(day) ==
    IF day \in DOMAIN files
    THEN LET good == GoodLines(files[day]) IN
         [p \in 1..Len(good) |-> [deployId |-> good[p].id, steps |-> good[p].json]]
    ELSE << >>

(* reading a partition gives its records, as if the other lines were absent *)
C15_Read ==
    \A d \in DOMAIN files :
        LET logs == ReadLogs(files, d) IN
        /\ logs = RecordsIn(d)
        /\ logs = ReadLogs(WithoutBadLines, d)

(* a query is answered 200 from the records of its partition *)
C15_QueryStep ==
    (res' # res /\ res'.kind = "query") =>
        LET body == res'.body
            day == IF body.filters.date # NoTime THEN body.filters.date ELSE today
            lim == IF body.limit = 0 THEN DefaultLimit ELSE body.limit
            records == RecordsIn(day)
        IN /\ res'.status = 200
           /\ body.total <= Len(records)
           /\ \A q \in 1..Len(body.logs) :
                 \E p \in 1..Len(records) : body.logs[q] = records[p]
           /\ (body.filters.app = <<>> /\ body.filters.env = <<>>) =>
                 /\ body.total = Len(records)
                 /\ body.logs = SubSeq(records, 1, Min(lim, body.total))

(* a read of findById finds the id exactly when the file it reads holds a
   record with that id, whatever other lines the file has *)
C15_FindStep ==
    (find.pc = "read" /\ find' # find) =>
        LET hits == RecordsOf(find.file, find.id) IN
        /\ hits # {} =>
              /\ res'.kind = "find"
              /\ res'.status = 200
              /\ res'.body.log = [deployId |-> find.id,
                                  steps |-> files[find.file][Least(hits)].json]
        /\ hits = {} => (res' = res \/ res'.status = 404)

(* C15: a line without a colon, or without valid JSON after its first colon,
   is skipped by query and by findById, which answer without failing and as
   if the line were not in the partition. *)
C15_BadLinesSkipped == [] C15_Read /\ [][C15_QueryStep /\ C15_FindStep]_vars

(* the id was found in a partition that starts with a line without a colon
   and ends with a partial line carrying the same id *)
C15_Witness ==
    /\ res.kind = "find"
    /\ res.status = 200
    /\ res.body.log.deployId = TargetId
    /\ \E d \in DOMAIN files :
          /\ RecordsOf(d, TargetId) # {}
          /\ files[d][1] = Garbage
          /\ files[d][Len(files[d])] = Partial(TargetId)

----------------------------------------------------------------------------
(* a trigger is rejected as already running only when a run of its own
   pair is in flight *)
C16_RejectedBySamePair ==
    \A req \in Requests :
        (Deploy(req[1], req[2]) /\ res'.error = "Deployment already running")
            => \E k \in RunIds :
                  InFlight(k) /\ runs[k].app = req[1] /\ runs[k].env = req[2]

(* a run in flight keeps its slot whatever the runs of other pairs do *)
C16_SlotKept ==
    \A k \in RunIds : InFlight(k) => Busy(running, KeyOf(k))

(* C16: runs of distinct (app, env) pairs never block each other, whatever
   the names are (names containing '-' included): a trigger is rejected as
   already running only if a run of the same pair is in flight, and a run
   that completes never frees the slot of another pair. *)
C16_PairsIndependent == [][C16_RejectedBySamePair]_vars /\ [] C16_SlotKept

----------------------------------------------------------------------------
(* Triggers, runs, and findById requests for the ids of the runs *)

NextRetrieve ==
    \/ Next
    \/ \E k \in 1..MaxRuns : k \in RunIds /\ FindArrives(runs[k].deployId)
    \/ FindRead

SpecRetrieve == Init /\ [][NextRetrieve]_vars

(* C17: every persisted run can be retrieved by its id: once the line of a
   run is in the partition of a day, findById with that deployId on that day
   answers with the record of that deployId and the steps of that run, for
   every app and environment name of the registry (names containing ':'
   included). *)
C17_Retrievable ==
    [][ (find.pc = "read" /\ find.i = 0 /\ find' # find) =>
           \A k \in RunIds :
              (Persisted(k) /\ runs[k].deployId = find.id /\ runs[k].logFile = find.file)
                  => /\ res'.kind = "find"
                     /\ res'.status = 200
                     /\ res'.body.log.deployId = runs[k].deployId
                     /\ res'.body.log.steps = runs[k].logLine.json ]_vars

----------------------------------------------------------------------------
(* Triggers and runs, with config.yml reloaded between them *)

NextReload ==
    \/ Next
    \/ \E file \in ConfigFiles : ReloadConfig(file)

SpecReload == Init /\ [][NextReload]_vars

(* a reload answered 500 leaves the registry and the configuration alone *)
C18_FailedReloadFrame ==
    \A file \in ConfigFiles :
        (ReloadConfig(file) /\ res'.status = 500)
            => APPS' = APPS /\ config' = config

(* every definition a trigger can resolve has a path and steps *)
C18_RegistryValid ==
    \A a \in DOMAIN APPS : \A e \in DOMAIN APPS[a] :
        APPS[a][e].path # "" /\ Len(APPS[a][e].steps) > 0

(* C18: a reload-config that fails (file unreadable, shellPath missing, a
   definition without path or with missing or empty steps) leaves the
   registry and the configuration exactly as they were, so that every
   definition a later trigger resolves has a working directory and a
   non-empty step list. *)
C18_ReloadAtomic == [][C18_FailedReloadFrame]_vars /\ [] C18_RegistryValid

----------------------------------------------------------------------------
(* the sum of the durations of a sequence of step results *)
RECURSIVE SumDurations(_)
SumDurations(steps) ==
    IF steps = << >> THEN 0 ELSE Head(steps).duration + SumDurations(Tail(steps))

(* the result a step adds to the record of a run carries the time from the
   start of that step's command to now *)
C19_OwnDuration ==
    \A k \in RunIds :
        (InFlight(k) /\ Len(runs'[k].steps) = Len(runs[k].steps) + 1)
            => runs'[k].steps[Len(runs'[k].steps)].duration = now - runs[k].stepStartTime

(* the durations of the steps of a finished run add up to its duration at most *)
C19_SumBound ==
    \A k \in RunIds :
        runs[k].duration # NoTime => SumDurations(runs[k].steps) <= runs[k].duration

(* C19: the duration of every step result, of a failed step as of a
   successful one, is the time between that step's own start and its end,
   so the step durations of a run add up to no more than the duration of
   the run. *)
C19_StepDurations == [][C19_OwnDuration]_vars /\ [] C19_SumBound

----------------------------------------------------------------------------
(* runs j and k are of one pair, j accepted first *)
C20_Successive(j, k) ==
    j < k /\ runs[j].app = runs[k].app /\ runs[j].env = runs[k].env

(* the line saveLog writes for run k once its steps are over *)
C20_Record(k) == LogLine(runs[k].deployId, FormatSteps(runs[k].steps))

(* no other run has the same line as run k *)
C20_OwnLine(k) == \A m \in RunIds : m # k => C20_Record(m) # C20_Record(k)

(* where the line of the persisted run k stands in its partition *)
C20_Place(k) ==
    CHOOSE p \in 1..Len(files[runs[k].logFile]) :
        files[runs[k].logFile][p] = runs[k].logLine

(* both runs are persisted in one partition, with lines that tell them apart *)
C20_BothWritten(j, k) ==
    /\ C20_Successive(j, k)
    /\ Persisted(j) /\ Persisted(k)
    /\ C20_OwnLine(j) /\ C20_OwnLine(k)
    /\ runs[j].logFile = runs[k].logFile

(* C20 as stated: of two runs of one pair, the line of the run accepted
   first stands before the line of the run accepted later, under every
   interleaving. *)
C20_AcceptOrderKept ==
    \A j, k \in RunIds :
        C20_BothWritten(j, k) => C20_Place(j) < C20_Place(k)

(* when run k is accepted, every earlier run of its pair has left the step
   loop and has called saveLog on its finished record *)
C20_HandedBeforeNext ==
    \A j, k \in RunIds :
        C20_Successive(j, k) =>
            /\ ~InFlight(j)
            /\ runs[j].saveCalls = 1
            /\ runs[j].status \in {"success", "failed"}
            /\ runs[j].endTime # NoTime
            /\ runs[j].endTime <= runs[k].startTime

(* an appendFile that settles successfully puts its line last in the partition *)
C20_AppendedLast ==
    \A k \in RunIds :
        (runs[k].pc = "append" /\ runs'[k].pc = "done" /\ files' # files)
            => LET lines == files'[runs[k].logFile] IN
               /\ lines[Len(lines)] = runs[k].logLine
               /\ runs[k].logFile \in DOMAIN files
                     => SubSeq(lines, 1, Len(lines) - 1) = files[runs[k].logFile]

(* C20 as amended: the earlier run of a pair has finished its steps and
   called saveLog before the later run is accepted, and the lines of a
   partition stand in the order in which the appendFile calls settled,
   which need not be the order of acceptance. *)
C20_SettleOrder == [] C20_HandedBeforeNext /\ [][C20_AppendedLast]_vars

(* the line of the run accepted later stands before the earlier run's line *)
C20_Witness ==
    \E j, k \in RunIds :
        /\ C20_BothWritten(j, k)
        /\ C20_Place(k) < C20_Place(j)

====
